---------------------------- MODULE Spec2Model ----------------------------
(***************************************************************************)
(* A model of tap_csv/client.py: the CSVStream class of a CSV tap.         *)
(*                                                                         *)
(* Text is modelled as a sequence of one-character strings, so that the    *)
(* conversions (int(), float(), strptime/strftime, the ".csv" suffix test) *)
(* are computed on the characters.  Column names are kept as atoms (TLA+   *)
(* strings): the code only compares them for equality.                     *)
(*                                                                         *)
(* A Python value is a record [k, s, n, e]:                                *)
(*    k = "str"       s = the characters                                   *)
(*    k = "int"       n = the integer                                      *)
(*    k = "float"     n / 10^e, n not divisible by 10 unless e = 0         *)
(*    k = "datetime"  n = seconds since the epoch (UTC)                    *)
(*    k = "raise"     an exception that propagates, s = <<its name>>       *)
(***************************************************************************)
EXTENDS Integers, Sequences, FiniteSets, TLC

Str(cs)      == [k |-> "str",      s |-> cs,       n |-> 0, e |-> 0]
PyInt(i)     == [k |-> "int",      s |-> <<>>,     n |-> i, e |-> 0]
PyFloat(m,x) == [k |-> "float",    s |-> <<>>,     n |-> m, e |-> x]
DateTime(t)  == [k |-> "datetime", s |-> <<>>,     n |-> t, e |-> 0]
Raised(name) == [k |-> "raise",    s |-> <<name>>, n |-> 0, e |-> 0]

Digits == <<"0", "1", "2", "3", "4", "5", "6", "7", "8", "9">>

IsDigit(c) == \E i \in 1..Len(Digits) : Digits[i] = c

DigitVal(c) == (CHOOSE i \in 1..Len(Digits) : Digits[i] = c) - 1

AllDigits(cs) == \A i \in 1..Len(cs) : IsDigit(cs[i])

RECURSIVE DigitsVal(_)
DigitsVal(cs) ==
    IF cs = <<>> THEN 0
    ELSE 10 * DigitsVal(SubSeq(cs, 1, Len(cs) - 1)) + DigitVal(cs[Len(cs)])

RECURSIVE NatToChars(_)
NatToChars(i) ==
    IF i < 10 THEN <<Digits[i + 1]>>
    ELSE NatToChars(i \div 10) \o <<Digits[(i % 10) + 1]>>

\* "%02d"
Pad2(i) == IF i < 10 THEN <<"0">> \o NatToChars(i) ELSE NatToChars(i)

\* str.strip() as int() and float() apply it to their argument
RECURSIVE Strip(_)
Strip(cs) ==
    IF cs = <<>> THEN cs
    ELSE IF Head(cs) = " " THEN Strip(Tail(cs))
    ELSE IF cs[Len(cs)] = " " THEN Strip(SubSeq(cs, 1, Len(cs) - 1))
    ELSE cs

Unsigned(cs) == IF cs # <<>> /\ Head(cs) \in {"+", "-"} THEN Tail(cs) ELSE cs

Sign(cs) == IF cs # <<>> /\ Head(cs) = "-" THEN -1 ELSE 1

\* position of the first c in cs, 0 when there is none
Find(cs, c) ==
    IF \E i \in 1..Len(cs) : cs[i] = c
    THEN CHOOSE i \in 1..Len(cs) : cs[i] = c /\ \A j \in 1..(i - 1) : cs[j] # c
    ELSE 0

\* int(text): surrounding blanks, an optional sign, one or more digits
IntOf(sign, body) ==
    IF body # <<>> /\ AllDigits(body)
    THEN [ok |-> TRUE, n |-> sign * DigitsVal(body)]
    ELSE [ok |-> FALSE, n |-> 0]

ParseInt(cs) == IntOf(Sign(Strip(cs)), Unsigned(Strip(cs)))

\* m / 10^x without trailing zeros in the fraction
RECURSIVE Normalize(_, _)
Normalize(m, x) ==
    IF x > 0 /\ m % 10 = 0 THEN Normalize(m \div 10, x - 1)
    ELSE [ok |-> TRUE, n |-> m, e |-> x]

\* the float with integer part ip and fraction fp
FloatOf(sign, ip, fp) ==
    IF AllDigits(ip) /\ AllDigits(fp) /\ Len(ip) + Len(fp) > 0
    THEN Normalize(sign * DigitsVal(ip \o fp), Len(fp))
    ELSE [ok |-> FALSE, n |-> 0, e |-> 0]

FloatAt(sign, body, dot) ==
    FloatOf(sign,
            IF dot = 0 THEN body ELSE SubSeq(body, 1, dot - 1),
            IF dot = 0 THEN <<>> ELSE SubSeq(body, dot + 1, Len(body)))

\* float(text): surrounding blanks, an optional sign, digits with at most one
\* point and at least one digit
ParseFloat(cs) ==
    FloatAt(Sign(Strip(cs)), Unsigned(Strip(cs)), Find(Unsigned(Strip(cs)), "."))

IsLeap(y) == y % 4 = 0 /\ (y % 100 # 0 \/ y % 400 = 0)

DaysInMonth(y, m) ==
    IF m = 2 THEN (IF IsLeap(y) THEN 29 ELSE 28)
    ELSE IF m \in {4, 6, 9, 11} THEN 30 ELSE 31

\* %m : 1[0-2] | 0[1-9] | [1-9]
MonthField(cs) ==
    \/ Len(cs) = 1 /\ IsDigit(cs[1]) /\ cs[1] # "0"
    \/ Len(cs) = 2 /\ cs[1] = "0" /\ IsDigit(cs[2]) /\ cs[2] # "0"
    \/ Len(cs) = 2 /\ cs[1] = "1" /\ cs[2] \in {"0", "1", "2"}

\* %d : 3[0-1] | [1-2]\d | 0[1-9] | [1-9] | " "[1-9]
DayField(cs) ==
    \/ Len(cs) = 1 /\ IsDigit(cs[1]) /\ cs[1] # "0"
    \/ Len(cs) = 2 /\ cs[1] = "3" /\ cs[2] \in {"0", "1"}
    \/ Len(cs) = 2 /\ cs[1] \in {"1", "2"} /\ IsDigit(cs[2])
    \/ Len(cs) = 2 /\ cs[1] \in {"0", " "} /\ IsDigit(cs[2]) /\ cs[2] # "0"

\* %y : \d\d, and nothing may remain after it
YearField(cs) == Len(cs) = 2 /\ AllDigits(cs)

NoDate == [ok |-> FALSE, y |-> 0, m |-> 0, d |-> 0]

\* the date, when the day exists in the month
DateOf(y, m, d) ==
    IF d <= DaysInMonth(y, m) THEN [ok |-> TRUE, y |-> y, m |-> m, d |-> d] ELSE NoDate

\* %y : 00..68 are 2000..2068, 69..99 are 1969..1999
Century(yy) == IF yy <= 68 THEN 2000 + yy ELSE 1900 + yy

DateFields(mf, df, yf) ==
    IF MonthField(mf) /\ DayField(df) /\ YearField(yf)
    THEN DateOf(Century(DigitsVal(yf)), DigitsVal(mf), DigitsVal(Strip(df)))
    ELSE NoDate

DateSplit2(mf, rest, s2) ==
    IF s2 = 0 THEN NoDate
    ELSE DateFields(mf, SubSeq(rest, 1, s2 - 1), SubSeq(rest, s2 + 1, Len(rest)))

DateSplit1(cs, s1) ==
    IF s1 = 0 THEN NoDate
    ELSE DateSplit2(SubSeq(cs, 1, s1 - 1), SubSeq(cs, s1 + 1, Len(cs)),
                    Find(SubSeq(cs, s1 + 1, Len(cs)), "/"))

\* datetime.strptime(text, '%m/%d/%y'): the fields between the slashes
Strptime(cs) == DateSplit1(cs, Find(cs, "/"))

\* date.strftime('%Y-%m-%d')
Strftime(t) == NatToChars(t.y) \o <<"-">> \o Pad2(t.m) \o <<"-">> \o Pad2(t.d)


(***************************************************************************)
(* dict: a sequence of [key, val] with distinct keys, in insertion order.  *)
(***************************************************************************)
DictKeys(d) == [i \in 1..Len(d) |-> d[i].key]

DictHas(d, key) == \E i \in 1..Len(d) : d[i].key = key

DictGet(d, key) == d[CHOOSE i \in 1..Len(d) : d[i].key = key].val

\* d[key] = val : an existing key keeps its position and takes the new value
DictSet(d, key, val) ==
    IF DictHas(d, key)
    THEN [i \in 1..Len(d) |-> IF d[i].key = key THEN [key |-> key, val |-> val] ELSE d[i]]
    ELSE Append(d, [key |-> key, val |-> val])

RECURSIVE DictOfPairs(_)
DictOfPairs(ps) ==
    IF ps = <<>> THEN <<>>
    ELSE LET l == ps[Len(ps)]
         IN  DictSet(DictOfPairs(SubSeq(ps, 1, Len(ps) - 1)), l.key, l.val)

Min(a, b) == IF a <= b THEN a ELSE b

\* dict(zip(names, vals)) : zip stops at the shorter sequence
DictOfZip(names, vals) ==
    DictOfPairs([i \in 1..Min(Len(names), Len(vals)) |-> [key |-> names[i], val |-> vals[i]]])

SDC_SOURCE_FILE_COLUMN == "_sdc_source_file"
SDC_SOURCE_LINENO_COLUMN == "_sdc_source_lineno"
SDC_SOURCE_FILE_MTIME_COLUMN == "_sdc_source_file_mtime"

(***************************************************************************)
(* The JSON schema of one property, as th.Property(name, T).to_dict()      *)
(* gives it for an optional property: the JSON type list and the format.   *)
(***************************************************************************)
StringType   == [type |-> <<"string", "null">>,  format |-> ""]
DateType     == [type |-> <<"string", "null">>,  format |-> "date"]
DateTimeType == [type |-> <<"string", "null">>,  format |-> "date-time"]
IntegerType  == [type |-> <<"integer", "null">>, format |-> ""]
DoubleType   == [type |-> <<"number", "null">>,  format |-> ""]

Property(name, typ) == [key |-> name, val |-> typ]

\* th.PropertiesList(*properties).to_dict()["properties"]
PropertiesList(properties) == DictOfPairs(properties)

InSeq(x, sq) == \E i \in 1..Len(sq) : sq[i] = x

\* next((item for item in custom_mappings if item['key'] == column), None)
FirstMapping(custom_mappings, column) ==
    LET hits == SelectSeq(custom_mappings, LAMBDA item : item.key = column)
    IN  IF hits = <<>> THEN "None" ELSE hits[1].data_type

\* the double hint taken for an integer hint
ColumnPropertiesDoubleAsInteger(custom_mappings, column) ==
    LET data_type == FirstMapping(custom_mappings, column)
    IN  IF data_type = "None" THEN <<Property(column, StringType)>>
        ELSE IF data_type = "date" THEN <<Property(column, DateType)>>
        ELSE IF data_type \in {"integer", "double"}
        THEN <<Property(column, IntegerType)>>
        ELSE IF data_type = "string" THEN <<Property(column, StringType)>>
        ELSE <<>>

\* the properties appended for one header column (lines 230-246)
ColumnProperties(custom_mappings, column) ==
    LET data_type == FirstMapping(custom_mappings, column)
    IN  IF data_type = "None" THEN <<Property(column, StringType)>>
        ELSE IF data_type = "date" THEN <<Property(column, DateType)>>
        ELSE IF data_type = "integer" THEN <<Property(column, IntegerType)>>
        ELSE IF data_type = "double" THEN <<Property(column, DoubleType)>>
        ELSE IF data_type = "string" THEN <<Property(column, StringType)>>
        ELSE <<>>

RECURSIVE HeaderProperties(_, _)
HeaderProperties(custom_mappings, header) ==
    IF header = <<>> THEN <<>>
    ELSE <<>> \o ColumnProperties(custom_mappings, Head(header))
              \o HeaderProperties(custom_mappings, Tail(header))

MetadataHeader == <<SDC_SOURCE_FILE_COLUMN, SDC_SOURCE_FILE_MTIME_COLUMN,
                    SDC_SOURCE_LINENO_COLUMN>>

\* the line number column put before the modification time
MetadataPropertiesSwapped ==
    <<Property(SDC_SOURCE_FILE_COLUMN, StringType),
      Property(SDC_SOURCE_LINENO_COLUMN, IntegerType),
      Property(SDC_SOURCE_FILE_MTIME_COLUMN, DateTimeType)>>

MetadataProperties ==
    <<Property(SDC_SOURCE_FILE_COLUMN, StringType),
      Property(SDC_SOURCE_FILE_MTIME_COLUMN, DateTimeType),
      Property(SDC_SOURCE_LINENO_COLUMN, IntegerType)>>

(***************************************************************************)
(* Column selection by schema type                                         *)
(***************************************************************************)
_get_date_columns(schema) ==
    DictKeys(SelectSeq(schema,
        LAMBDA p : InSeq("string", p.val.type) /\ p.val.format = "date"))

_get_columns_by_type(schema, data_type) ==
    DictKeys(SelectSeq(schema, LAMBDA p : InSeq(data_type, p.val.type)))

(***************************************************************************)
(* Conversions                                                             *)
(***************************************************************************)
IntResult(p) == IF p.ok THEN PyInt(p.n) ELSE Raised("ValueError")

FloatResult(p) == IF p.ok THEN PyFloat(p.n, p.e) ELSE Raised("ValueError")

\* int(value), float(value) : the value, or the exception raised
CallType(value, target_type) ==
    IF target_type = "int" THEN
        IF value.k = "int" THEN value
        ELSE IF value.k = "str" THEN IntResult(ParseInt(value.s))
        ELSE Raised("TypeError")
    ELSE
        IF value.k = "float" THEN value
        ELSE IF value.k = "int" THEN PyFloat(value.n, 0)
        ELSE IF value.k = "str" THEN FloatResult(ParseFloat(value.s))
        ELSE Raised("TypeError")

\* a failed conversion giving zero instead of the value
ExceptValueErrorZero(result, value) ==
    IF result = Raised("ValueError") THEN PyInt(0) ELSE result

\* except ValueError: return value
ExceptValueError(result, value) ==
    IF result = Raised("ValueError") THEN value ELSE result

_safe_cast(value, target_type) == ExceptValueError(CallType(value, target_type), value)

\* strftime of the parsed date; except ValueError: return date_str
Reformat(t, date_str) == IF t.ok THEN Str(Strftime(t)) ELSE date_str

_transform_date(date_str) ==
    IF date_str.k # "str" THEN Raised("TypeError")
    ELSE Reformat(Strptime(date_str.s), date_str)

\* str(datetime) for a time t < 60 s after the epoch, in UTC
DateTimeChars(t) ==
    <<"1","9","7","0","-","0","1","-","0","1"," ","0","0",":","0","0",":">>
        \o Pad2(t) \o <<"+","0","0",":","0","0">>

\* str(value)
PyStr(value) ==
    IF value.k = "str" THEN value
    ELSE IF value.k = "datetime" THEN Str(DateTimeChars(value.n))
    ELSE IF value.k = "int"
         THEN Str((IF value.n < 0 THEN <<"-">> ELSE <<>>)
                  \o NatToChars(IF value.n < 0 THEN -value.n ELSE value.n))
    ELSE value

\* the conversion one loop of _apply_transformations applies
Convert(how, value) ==
    IF how = "date" THEN _transform_date(value)
    ELSE IF how = "int" THEN _safe_cast(value, "int")
    ELSE IF how = "float" THEN _safe_cast(value, "float")
    ELSE PyStr(value)

\* one loop of _apply_transformations: row_dict[col] = convert(row_dict[col])
\* for every col of cols that is in row_dict
RECURSIVE ApplyTo(_, _, _)
ApplyTo(row_dict, cols, how) ==
    IF cols = <<>> THEN row_dict
    ELSE ApplyTo(IF DictHas(row_dict, Head(cols))
                 THEN DictSet(row_dict, Head(cols),
                              Convert(how, DictGet(row_dict, Head(cols))))
                 ELSE row_dict,
                 Tail(cols), how)

_apply_transformations(row_dict, date_columns, int_columns, double_columns, string_columns) ==
    ApplyTo(ApplyTo(ApplyTo(ApplyTo(row_dict, date_columns, "date"),
                            int_columns, "int"),
                    double_columns, "float"),
            string_columns, "str")

\* the exception a transformation let through, "" when there is none
RaisedIn(row_dict) ==
    IF \E i \in 1..Len(row_dict) : row_dict[i].val.k = "raise"
    THEN (row_dict[CHOOSE i \in 1..Len(row_dict) : row_dict[i].val.k = "raise"]).val.s[1]
    ELSE ""



(***************************************************************************)
(* The filesystem: one directory Dir whose entries, in the order os.walk   *)
(* lists them, are Listing.  fs maps every path to a file                  *)
(* [exists, rows, mtime]; rows is what csv.reader yields for the file.     *)
(***************************************************************************)
Dir == <<"d">>

NameA == <<"a", ".", "c", "s", "v">>
NameB == <<"b", ".", "c", "s", "v">>
NameN == <<"n", ".", "t", "x", "t">>

Listing == <<NameA, NameB, NameN>>

\* os.path.join(os.path.normpath(path) + os.sep, filename)
PathOf(filename) == Dir \o <<"/">> \o filename

AllPaths == {PathOf(Listing[i]) : i \in 1..Len(Listing)}

NoFile == [exists |-> FALSE, rows |-> <<>>, mtime |-> 0]

File(rows, mtime) == [exists |-> TRUE, rows |-> rows, mtime |-> mtime]

Exists(fsys, path) == path = Dir \/ (path \in AllPaths /\ fsys[path].exists)

IsDir(path) == path = Dir

\* file_path[-4:] == ".csv"
is_valid_filename(file_path) ==
    LET n == Len(file_path)
    IN  SubSeq(file_path, IF n > 4 THEN n - 3 ELSE 1, n) = <<".", "c", "s", "v">>

_get_recursive_file_paths(fsys, file_path) ==
    LET found == SelectSeq(Listing, LAMBDA name : fsys[file_path \o name].exists)
        joined == [i \in 1..Len(found) |-> file_path \o found[i]]
    IN  SelectSeq(joined, is_valid_filename)

\* get_file_paths() without the cache of lines 161-162
get_file_paths_uncached(self_file_paths, fsys, path) ==
    IF ~Exists(fsys, path)
    THEN [err |-> "Exception", file_paths |-> self_file_paths, walked |-> FALSE]
    ELSE LET file_paths ==
                 IF IsDir(path) THEN _get_recursive_file_paths(fsys, path \o <<"/">>)
                 ELSE IF is_valid_filename(path) THEN <<path>>
                 ELSE <<>>
         IN  IF file_paths = <<>>
             THEN [err |-> "RuntimeError", file_paths |-> self_file_paths, walked |-> TRUE]
             ELSE [err |-> "", file_paths |-> file_paths, walked |-> TRUE]

\* get_file_paths(): [err, file_paths, walked]; file_paths is the list returned
\* and, after the call, self.file_paths
get_file_paths(self_file_paths, fsys, path) ==
    IF self_file_paths # <<>>
    THEN [err |-> "", file_paths |-> self_file_paths, walked |-> FALSE]
    ELSE IF ~Exists(fsys, path)
    THEN [err |-> "Exception", file_paths |-> self_file_paths, walked |-> FALSE]
    ELSE LET file_paths ==
                 IF IsDir(path) THEN _get_recursive_file_paths(fsys, path \o <<"/">>)
                 ELSE IF is_valid_filename(path) THEN <<path>>
                 ELSE <<>>
         IN  IF file_paths = <<>>
             THEN [err |-> "RuntimeError", file_paths |-> self_file_paths, walked |-> TRUE]
             ELSE [err |-> "", file_paths |-> file_paths, walked |-> TRUE]

(***************************************************************************)
(* The schema property.  The result is                                     *)
(*   err         the exception raised, "" when the schema is returned      *)
(*   value       the "properties" of the schema returned                   *)
(*   file_paths  self.file_paths after the access                          *)
(*   header      self.header after the access                              *)
(*   walked      whether the filesystem was walked                         *)
(*   path, hdr   the file whose first row was read, and that row           *)
(*   opened      whether get_rows opened the file                          *)
(*   left_open   whether the row generator was left suspended inside its   *)
(*               `with open(...)` block by the break                       *)
(***************************************************************************)
SchemaFailed(e, g, paths, self_header) ==
    [err |-> e, value |-> <<>>, file_paths |-> paths, header |-> self_header,
     walked |-> g.walked, path |-> <<>>, hdr |-> <<>>,
     opened |-> e = "UnboundLocalError", left_open |-> FALSE]

\* lines 227-267, with header bound to the first row of file_path
SchemaOf(header, g, file_path, cfg) ==
    [err |-> "",
     value |-> PropertiesList(
         HeaderProperties(cfg.custom_mappings, header)
             \o (IF cfg.add_metadata_columns THEN MetadataProperties ELSE <<>>)),
     file_paths |-> g.file_paths,
     header |-> IF cfg.add_metadata_columns THEN MetadataHeader \o header ELSE header,
     walked |-> g.walked,
     path |-> file_path,
     hdr |-> header,
     opened |-> TRUE,
     left_open |-> TRUE]

\* lines 222-225: the first row of the first file
SchemaFrom(g, self_file_paths, self_header, fsys, cfg) ==
    IF g.err # "" THEN SchemaFailed(g.err, g, self_file_paths, self_header)
    ELSE IF ~fsys[g.file_paths[1]].exists
    THEN SchemaFailed("FileNotFoundError", g, g.file_paths, self_header)
    ELSE IF fsys[g.file_paths[1]].rows = <<>>
    THEN SchemaFailed("UnboundLocalError", g, g.file_paths, self_header)
    ELSE SchemaOf(fsys[g.file_paths[1]].rows[1], g, g.file_paths[1], cfg)

schema(self_file_paths, self_header, fsys, cfg, file_cfg) ==
    SchemaFrom(get_file_paths(self_file_paths, fsys, file_cfg.path),
               self_file_paths, self_header, fsys, cfg)

(***************************************************************************)
(* Sample files and configurations                                         *)
(***************************************************************************)
Cell1 == <<"1">>
Cell2 == <<"2">>
Cell3 == <<"3">>
Cell4 == <<"4">>
Cell42 == <<"4", "2">>
CellAbc == <<"a", "b", "c">>
CellDate == <<"0", "3", "/", "0", "4", "/", "2", "1">>
CellBadDate == <<"2", "/", "3", "0", "/", "2", "1">>
CellFloat == <<"1", ".", "5">>
CellEmpty == <<>>

EmptyFile == <<>>
BlankHeaderFile == << <<>>, <<Cell1>> >>
FileAB == << <<"a", "b">>, <<Cell1, Cell2>>, <<Cell3, Cell4>> >>
FileTyped ==
    << <<"id", "signup_date", "amount", "name">>,
       <<Cell42, CellDate, CellFloat, CellAbc>>,
       <<CellAbc, CellBadDate, CellAbc, CellEmpty>> >>
FileDup == << <<"a", "a">>, <<Cell1, Cell2>> >>

Contents == {EmptyFile, BlankHeaderFile, FileAB, FileTyped, FileDup}

\* what the environment writes while the stream is in use
Rewrites == {FileAB, FileDup}

Hint(key, data_type) == [key |-> key, data_type |-> data_type]

HintsExample == <<Hint("signup_date", "date"), Hint("amount", "double")>>
HintsAll ==
    <<Hint("id", "integer"), Hint("signup_date", "date"), Hint("amount", "double"),
      Hint("name", "string"), Hint("b", "integer")>>

Mappings == {HintsExample, HintsAll}

ConfigPaths == {Dir, PathOf(NameA), PathOf(NameN)}

MaxFsChanges == 1
MaxSchemaReads == 1
MaxPending == 1

\* file_lineno = -1
InitialLineno == -1

(***************************************************************************)
(* State                                                                   *)
(***************************************************************************)
VARIABLES
    config,             \* self.config: add_metadata_columns, custom_mappings
    file_config,        \* self.file_config: path
    fs,                 \* the filesystem
    file_paths,         \* self.file_paths
    header,             \* self.header
    pc,                 \* the get_records generator: "new", "suspended", "done",
                        \* "error", "abandoned", "closed"
    columns,            \* its date_columns, int_columns, double_columns, string_columns
    fileIdx,            \* the index in file_paths of its file_path
    reader,             \* its get_rows generator: [open, rows, pos]
    file_lineno,
    file_last_modified,
    emitted,            \* what it has yielded: [record, path, pos, raw]
    err,                \* the exception that ended it
    schemaFirst,        \* the first and the latest access of self.schema
    schemaLast,
    reads,              \* accesses of self.schema by the consumer
    pending,            \* row generators left suspended and not yet finalized
    peakOpen,           \* the most file handles held at one time, so far, by row
                        \* generators still being iterated
    resolvedFrom,       \* the files present when get_file_paths first succeeded
    rewalked,           \* the filesystem was walked again after that
    fsChanges,
    cast                \* rows converted on their own: [rows, type, out, failure]

vars == <<config, file_config, fs, file_paths, header, pc, columns, fileIdx, reader,
          file_lineno, file_last_modified, emitted, err, schemaFirst, schemaLast,
          reads, pending, peakOpen, resolvedFrom, rewalked, fsChanges, cast>>

streamVars == <<pc, columns, fileIdx, reader, file_lineno, file_last_modified,
                emitted, err>>

\* an access of self.schema: its result, and how many changes of the
\* filesystem came before it
NoAccess == [done |-> FALSE, err |-> "", value |-> <<>>, header |-> <<>>,
             path |-> <<>>, hdr |-> <<>>, at |-> 0]

Access(r) == [done |-> TRUE, err |-> r.err, value |-> r.value, header |-> r.header,
              path |-> r.path, hdr |-> r.hdr, at |-> fsChanges]

NoColumns == [date |-> <<>>, int |-> <<>>, double |-> <<>>, string |-> <<>>]

ClosedReader == [open |-> FALSE, rows |-> <<>>, pos |-> 0]

NoCast == [rows |-> <<>>, type |-> "string", out |-> <<>>, failure |-> ""]

Max(a, b) == IF a >= b THEN a ELSE b

\* the handles held by row generators still being iterated, when an access of
\* self.schema with result r has opened its file
InUse(r) == (IF reader.open THEN 1 ELSE 0) + (IF r.opened THEN 1 ELSE 0)

InitStream ==
    /\ file_paths = <<>>
    /\ header = <<>>
    /\ pc = "new"
    /\ columns = NoColumns
    /\ fileIdx = 0
    /\ reader = ClosedReader
    /\ file_lineno = InitialLineno
    /\ file_last_modified = 0
    /\ emitted = <<>>
    /\ err = ""
    /\ schemaFirst = NoAccess
    /\ schemaLast = NoAccess
    /\ reads = 0
    /\ pending = 0
    /\ peakOpen = 0
    /\ resolvedFrom = {}
    /\ rewalked = FALSE
    /\ fsChanges = 0

Init ==
    /\ config \in [add_metadata_columns : BOOLEAN, custom_mappings : Mappings]
    /\ file_config \in [path : ConfigPaths]
    /\ fs \in [AllPaths -> {NoFile} \cup {File(c, 0) : c \in Contents}]
    /\ fs[PathOf(NameN)] \in {NoFile, File(FileAB, 0)}
    /\ InitStream
    /\ cast = NoCast



(***************************************************************************)
(* get_file_paths() called by the consumer                                 *)
(***************************************************************************)
Present == IF IsDir(file_config.path) THEN {p \in AllPaths : fs[p].exists}
           ELSE {file_config.path}

\* the bookkeeping of a call of get_file_paths that left paths in the cache
NoteResolve(walked, paths) ==
    /\ resolvedFrom' = IF resolvedFrom = {} /\ walked /\ paths # <<>> THEN Present
                       ELSE resolvedFrom
    /\ rewalked' = (rewalked \/ (resolvedFrom # {} /\ walked))

GetFilePathsTo(g) ==
    /\ file_paths' = g.file_paths
    /\ NoteResolve(g.walked, g.file_paths)
    /\ UNCHANGED <<config, file_config, fs, header, streamVars, schemaFirst,
                   schemaLast, reads, pending, peakOpen, fsChanges, cast>>

GetFilePaths == GetFilePathsTo(get_file_paths(file_paths, fs, file_config.path))

(***************************************************************************)
(* self.schema                                                             *)
(***************************************************************************)
\* what an access of self.schema with result r leaves behind; the row generator
\* the break abandons is finalized (and its file closed) at once, or later
NoteSchema(r, later) ==
    /\ file_paths' = r.file_paths
    /\ header' = r.header
    /\ schemaFirst' = IF schemaFirst.done THEN schemaFirst ELSE Access(r)
    /\ schemaLast' = Access(r)
    /\ NoteResolve(r.walked, r.file_paths)
    /\ pending' = IF r.left_open /\ later THEN pending + 1 ELSE pending

SchemaAccessTo(r) ==
    /\ reads < MaxSchemaReads
    /\ reads' = reads + 1
    /\ \E later \in BOOLEAN :
          /\ later => pending < MaxPending
          /\ NoteSchema(r, later)
    /\ peakOpen' = Max(peakOpen, InUse(r))
    /\ UNCHANGED <<config, file_config, fs, streamVars, fsChanges, cast>>

SchemaAccess == SchemaAccessTo(schema(file_paths, header, fs, config, file_config))

(***************************************************************************)
(* get_records(): one next() of the generator                              *)
(***************************************************************************)
\* Runs the two loops from the reader rd of file number fi to the next yield,
\* to the end, or to an exception.
RECURSIVE Scan(_, _, _, _, _, _)
Scan(paths, fsys, fi, rd, lineno, mtime) ==
    IF rd.open /\ rd.pos < Len(rd.rows)
    THEN LET next == [rd EXCEPT !.pos = rd.pos + 1]
         IN  IF lineno + 1 = 0
             THEN Scan(paths, fsys, fi, next, lineno + 1, mtime)
             ELSE [tag |-> "yield", fi |-> fi, rd |-> next, lineno |-> lineno + 1,
                   mtime |-> mtime, row |-> rd.rows[rd.pos + 1], err |-> ""]
    ELSE IF fi >= Len(paths)
    THEN [tag |-> "stop", fi |-> fi, rd |-> ClosedReader, lineno |-> lineno,
          mtime |-> mtime, row |-> <<>>, err |-> ""]
    ELSE IF ~fsys[paths[fi + 1]].exists
    THEN [tag |-> "raise", fi |-> fi + 1, rd |-> ClosedReader, lineno |-> lineno,
          mtime |-> mtime, row |-> <<>>, err |-> "FileNotFoundError"]
    ELSE Scan(paths, fsys, fi + 1,
              [open |-> TRUE, rows |-> fsys[paths[fi + 1]].rows, pos |-> 0],
              InitialLineno, fsys[paths[fi + 1]].mtime)

\* the row stamped with the number of rows read before it
BuildRowCountingBefore(meta, file_path, mtime, lineno, raw) ==
    LET cells == [i \in 1..Len(raw) |-> Str(raw[i])]
    IN  IF meta THEN <<Str(file_path), DateTime(mtime), PyInt(lineno - 1)>> \o cells
        ELSE cells

\* row = [file_path, file_last_modified, file_lineno, *row]
BuildRow(meta, file_path, mtime, lineno, raw) ==
    LET cells == [i \in 1..Len(raw) |-> Str(raw[i])]
    IN  IF meta THEN <<Str(file_path), DateTime(mtime), PyInt(lineno)>> \o cells
        ELSE cells

ColumnsOf(value) ==
    [date   |-> _get_date_columns(value),
     int    |-> _get_columns_by_type(value, "integer"),
     double |-> _get_columns_by_type(value, "double"),
     string |-> _get_columns_by_type(value, "string")]

\* lines 63-86: the record of the row the scan res stopped at
RecordOf(res, cols, paths, hdr) ==
    _apply_transformations(
        DictOfZip(hdr, BuildRow(config.add_metadata_columns, paths[res.fi], res.mtime,
                                res.lineno, res.row)),
        cols.date, cols.int, cols.double, cols.string)

\* the generator after the scan res: out is the record of its row, failure the
\* exception a transformation raised; base counts the handles in use before
\* the scan (each file is closed before the next one is opened)
Advance(res, out, failure, cols, paths, base) ==
    /\ columns' = cols
    /\ fileIdx' = res.fi
    /\ reader' = res.rd
    /\ file_lineno' = res.lineno
    /\ file_last_modified' = res.mtime
    /\ pc' = IF res.tag = "raise" \/ (res.tag = "yield" /\ failure # "") THEN "error"
             ELSE IF res.tag = "yield" THEN "suspended" ELSE "done"
    /\ err' = IF res.tag = "yield" THEN failure ELSE res.err
    /\ emitted' = IF res.tag = "yield" /\ failure = ""
                  THEN Append(emitted, [record |-> out, path |-> paths[res.fi],
                                        pos |-> res.rd.pos, raw |-> res.row])
                  ELSE emitted
    /\ peakOpen' = Max(peakOpen,
                       Max(base, IF reader.open \/ res.fi > fileIdx THEN 1 ELSE 0))

Yield(res, out, cols, paths, base) ==
    Advance(res, out, RaisedIn(out), cols, paths, base)

ResumeFrom(res, cols, paths, hdr, base) ==
    Yield(res, RecordOf(res, cols, paths, hdr), cols, paths, base)

\* the rest of a next(): the loops, with the column lists cols, the path list
\* paths and the cached header hdr
Resume(cols, paths, hdr, base) ==
    ResumeFrom(Scan(paths, fs, fileIdx, reader, file_lineno, file_last_modified),
               cols, paths, hdr, base)

\* the first next(): r is the result of line 40, schema = self.schema
Start(r) ==
    /\ \E later \in BOOLEAN :
          /\ later => pending < MaxPending
          /\ NoteSchema(r, later)
    /\ IF r.err # ""
       THEN /\ pc' = "error"
            /\ err' = r.err
            /\ peakOpen' = Max(peakOpen, InUse(r))
            /\ UNCHANGED <<columns, fileIdx, reader, file_lineno, file_last_modified,
                           emitted>>
       ELSE Resume(ColumnsOf(r.value), r.file_paths, r.header, InUse(r))

Continue ==
    /\ UNCHANGED <<file_paths, header, schemaFirst, schemaLast, resolvedFrom,
                   rewalked, pending>>
    /\ Resume(columns, file_paths, header, 0)

Pull ==
    /\ pc \in {"new", "suspended"}
    /\ IF pc = "new" THEN Start(schema(file_paths, header, fs, config, file_config))
       ELSE Continue
    /\ UNCHANGED <<config, file_config, fs, reads, fsChanges, cast>>

(***************************************************************************)
(* The consumer stops pulling; the runtime finalizes abandoned generators  *)
(***************************************************************************)
Abandon ==
    /\ pc = "suspended"
    /\ \E later \in BOOLEAN :
          /\ pc' = IF later THEN "abandoned" ELSE "closed"
          /\ reader' = IF later THEN reader ELSE ClosedReader
    /\ UNCHANGED <<config, file_config, fs, file_paths, header, columns, fileIdx,
                   file_lineno, file_last_modified, emitted, err, schemaFirst,
                   schemaLast, reads, pending, peakOpen, resolvedFrom, rewalked,
                   fsChanges, cast>>

Finalize ==
    /\ pending > 0 \/ (pc \in {"abandoned", "error"} /\ reader.open)
    /\ pending' = 0
    /\ pc' = IF pc = "abandoned" THEN "closed" ELSE pc
    /\ reader' = IF pc \in {"abandoned", "error"} THEN ClosedReader ELSE reader
    /\ UNCHANGED <<config, file_config, fs, file_paths, header, columns, fileIdx,
                   file_lineno, file_last_modified, emitted, err, schemaFirst,
                   schemaLast, reads, peakOpen, resolvedFrom, rewalked, fsChanges,
                   cast>>

(***************************************************************************)
(* The environment adds, removes or rewrites a file                        *)
(***************************************************************************)
FsChange ==
    /\ fsChanges < MaxFsChanges
    /\ fsChanges' = fsChanges + 1
    /\ \E p \in AllPaths :
         \E f \in {NoFile} \cup {File(c, fsChanges + 1) : c \in Rewrites} :
            /\ f.exists # fs[p].exists \/ f.rows # fs[p].rows
            /\ p = PathOf(NameN) => f.rows \in {<<>>, FileAB}
            /\ fs' = [fs EXCEPT ![p] = f]
    /\ UNCHANGED <<config, file_config, file_paths, header, streamVars, schemaFirst,
                   schemaLast, reads, pending, peakOpen, resolvedFrom, rewalked, cast>>

Next == GetFilePaths \/ SchemaAccess \/ Pull \/ Abandon \/ Finalize

\* the stream over a filesystem nobody else touches
Spec == Init /\ [][Next]_vars

InitFs ==
    /\ config \in [add_metadata_columns : BOOLEAN, custom_mappings : {HintsAll}]
    /\ file_config \in [path : {Dir, PathOf(NameA)}]
    /\ fs \in [AllPaths -> {NoFile} \cup {File(c, 0) : c \in Rewrites}]
    /\ fs[PathOf(NameN)] \in {NoFile, File(FileAB, 0)}
    /\ InitStream
    /\ cast = NoCast

NextFs == GetFilePaths \/ SchemaAccess \/ Pull \/ Abandon \/ Finalize \/ FsChange

\* the stream while the environment changes the files
SpecFs == InitFs /\ [][NextFs]_vars


(***************************************************************************)
(* The conversions on their own: rows of one cell, in a column "x" of one  *)
(* schema type, go through lines 67-87 one after the other.                *)
(***************************************************************************)
CellPadded == <<" ", "7", " ">>
CellNegative == <<"-", "7">>
CellPlus == <<"+", "5">>
CellShortDate == <<"3", "/", "4", "/", "6", "9">>
CellMonth13 == <<"1", "3", "/", "0", "1", "/", "2", "1">>
CellLongYear == <<"0", "3", "/", "0", "4", "/", "2", "0", "2", "1">>
CellPoint == <<".">>
CellTrailingPoint == <<"1", ".">>

CastCells ==
    {Cell42, CellAbc, CellDate, CellBadDate, CellFloat, CellEmpty, CellPadded,
     CellNegative, CellPlus, CellShortDate, CellMonth13, CellLongYear, CellPoint,
     CellTrailingPoint}

CastTypes == {"date", "integer", "double", "string"}

CastHeader == <<"x">>

\* the column lists for a column "x" of the given type; a date column is a
\* string column too
ColumnsFor(type) ==
    [date   |-> IF type = "date" THEN CastHeader ELSE <<>>,
     int    |-> IF type = "integer" THEN CastHeader ELSE <<>>,
     double |-> IF type = "double" THEN CastHeader ELSE <<>>,
     string |-> IF type \in {"string", "date"} THEN CastHeader ELSE <<>>]

InitCoerce ==
    /\ config = [add_metadata_columns |-> FALSE, custom_mappings |-> <<>>]
    /\ file_config = [path |-> Dir]
    /\ fs = [p \in AllPaths |-> NoFile]
    /\ InitStream
    /\ cast \in [rows : CastCells \X CastCells, type : CastTypes, out : {<<>>},
                 failure : {""}]

ConvertedTo(out) ==
    cast' = IF RaisedIn(out) # "" THEN [cast EXCEPT !.failure = RaisedIn(out)]
            ELSE [cast EXCEPT !.out = Append(cast.out, out)]

\* the body of the row loop for the next row
ConvertRow ==
    /\ cast.failure = ""
    /\ Len(cast.out) < Len(cast.rows)
    /\ ConvertedTo(_apply_transformations(
           DictOfZip(CastHeader, <<Str(cast.rows[Len(cast.out) + 1])>>),
           ColumnsFor(cast.type).date, ColumnsFor(cast.type).int,
           ColumnsFor(cast.type).double, ColumnsFor(cast.type).string))
    /\ UNCHANGED <<config, file_config, fs, file_paths, header, streamVars,
                   schemaFirst, schemaLast, reads, pending, peakOpen, resolvedFrom,
                   rewalked, fsChanges>>

SpecCoerce == InitCoerce /\ [][ConvertRow]_vars



(***************************************************************************)
(* Properties                                                              *)
(***************************************************************************)
Emitted == {emitted[i] : i \in 1..Len(emitted)}

\* the distinct elements of sq, each at its first occurrence
RECURSIVE FirstOccurrences(_)
FirstOccurrences(sq) ==
    IF sq = <<>> THEN <<>>
    ELSE LET rest == FirstOccurrences(SubSeq(sq, 1, Len(sq) - 1))
         IN  IF InSeq(sq[Len(sq)], rest) THEN rest ELSE Append(rest, sq[Len(sq)])

\* the schema columns that are not provenance columns
DataColumns(value) == SelectSeq(value, LAMBDA p : ~InSeq(p.key, MetadataHeader))

\* the JSON type the hints give a column: that of the first hint for it,
\* string when there is none
HintedType(name) ==
    LET hits == {j \in 1..Len(config.custom_mappings) :
                    config.custom_mappings[j].key = name}
        first == CHOOSE j \in hits : \A h \in hits : j <= h
        hint == config.custom_mappings[first].data_type
    IN  IF hits = {} THEN StringType
        ELSE IF hint = "date" THEN DateType
        ELSE IF hint = "integer" THEN IntegerType
        ELSE IF hint = "double" THEN DoubleType
        ELSE StringType

SchemaReturned == schemaLast.done /\ schemaLast.err = ""

\* C1 as stated: with add_metadata_columns, the k-th data row of a file is
\* emitted with _sdc_source_lineno = k - 1 (the row at position pos of the file,
\* the header being at position 1, is data row pos - 1).
C1_LinenoFromZero ==
    config.add_metadata_columns =>
        \A e \in Emitted :
            /\ DictHas(e.record, SDC_SOURCE_LINENO_COLUMN)
            /\ DictGet(e.record, SDC_SOURCE_LINENO_COLUMN) = PyInt(e.pos - 2)

\* C1 as amended: with add_metadata_columns, the k-th data row of a file is
\* emitted with _sdc_source_lineno = k: the header row counts as line 0 and is
\* not emitted, and the count restarts for each file.
C1_LinenoFromOne ==
    config.add_metadata_columns =>
        \A e \in Emitted :
            /\ DictHas(e.record, SDC_SOURCE_LINENO_COLUMN)
            /\ DictGet(e.record, SDC_SOURCE_LINENO_COLUMN) = PyInt(e.pos - 1)

\* two data rows of one file, then the first data row of the next file
C1_Witness ==
    /\ config.add_metadata_columns
    /\ \E i, j \in 1..Len(emitted) :
          /\ i < j
          /\ emitted[i].path # emitted[j].path
          /\ emitted[i].pos = 3
          /\ DictGet(emitted[i].record, SDC_SOURCE_LINENO_COLUMN) = PyInt(2)
          /\ emitted[j].pos = 2
          /\ DictGet(emitted[j].record, SDC_SOURCE_LINENO_COLUMN) = PyInt(1)

\* C2: once the schema has been returned, every later access that returns a
\* schema returns the same one and leaves the same cached header, whatever
\* happened to the files in between.
C2_SchemaCached ==
    (schemaFirst.done /\ schemaFirst.err = "" /\ schemaLast.err = "") =>
        /\ schemaLast.value = schemaFirst.value
        /\ schemaLast.header = schemaFirst.header

\* C3 as stated: with add_metadata_columns, the schema begins with the three
\* provenance columns, in their fixed order, followed by the header columns in
\* header order.
C3_MetadataFirst ==
    (SchemaReturned /\ config.add_metadata_columns) =>
        DictKeys(schemaLast.value) = MetadataHeader \o schemaLast.hdr

\* C3 as amended: with add_metadata_columns, and a header that uses none of the
\* provenance names, the schema lists the header columns (one per distinct name,
\* in header order) and ends with the three provenance columns
\* _sdc_source_file: string, _sdc_source_file_mtime: date-time,
\* _sdc_source_lineno: integer, in that order; the cached header is what begins
\* with the three provenance names, followed by the header row.
C3_MetadataLast ==
    (/\ SchemaReturned
     /\ config.add_metadata_columns
     /\ \A i \in 1..Len(schemaLast.hdr) : ~InSeq(schemaLast.hdr[i], MetadataHeader))
    => /\ schemaLast.value =
              DataColumns(schemaLast.value)
                  \o << [key |-> "_sdc_source_file", val |-> StringType],
                        [key |-> "_sdc_source_file_mtime", val |-> DateTimeType],
                        [key |-> "_sdc_source_lineno", val |-> IntegerType] >>
       /\ DictKeys(DataColumns(schemaLast.value)) = FirstOccurrences(schemaLast.hdr)
       /\ schemaLast.header =
              <<"_sdc_source_file", "_sdc_source_file_mtime", "_sdc_source_lineno">>
                  \o schemaLast.hdr

C3_Witness ==
    /\ SchemaReturned
    /\ config.add_metadata_columns
    /\ Len(schemaLast.hdr) = 4
    /\ Len(schemaLast.value) = 7
    /\ schemaLast.value[7].key = "_sdc_source_lineno"

\* the path ends in ".csv"
EndsInCsv(p) ==
    /\ Len(p) >= 4
    /\ p[Len(p) - 3] = "."
    /\ p[Len(p) - 2] = "c"
    /\ p[Len(p) - 1] = "s"
    /\ p[Len(p)] = "v"

\* C4: once get_file_paths has succeeded, the cached list holds exactly the
\* files that ended in ".csv" when it was resolved, each once, and the
\* filesystem is never walked again, whatever happens to the files afterwards.
C4_ResolvedOnce ==
    file_paths # <<>> =>
        /\ {file_paths[i] : i \in 1..Len(file_paths)}
               = {p \in resolvedFrom : EndsInCsv(p)}
        /\ Len(file_paths) = Cardinality({p \in resolvedFrom : EndsInCsv(p)})
        /\ ~rewalked

\* a directory of two .csv files and one other file, resolved, then changed,
\* then asked for its paths again
C4_Witness ==
    /\ file_config.path = Dir
    /\ resolvedFrom = AllPaths
    /\ Len(file_paths) = 2
    /\ {p \in AllPaths : fs[p].exists} # resolvedFrom
    /\ schemaFirst.at = 0
    /\ schemaLast.at > 0

\* C5 as stated: one schema column per header column, in header order, typed
\* by the column's hint, string when it has none.
C5_ColumnPerHeaderColumn ==
    SchemaReturned =>
        /\ DictKeys(DataColumns(schemaLast.value)) = schemaLast.hdr
        /\ \A p \in {DataColumns(schemaLast.value)[i] :
                        i \in 1..Len(DataColumns(schemaLast.value))} :
              p.val = HintedType(p.key)

\* C5 as amended: one schema column per distinct header column name, in the
\* order of the names' first occurrences in the header, typed by the column's
\* hint (date, integer, double or string), string when it has none.
C5_ColumnPerHeaderName ==
    SchemaReturned =>
        /\ DictKeys(DataColumns(schemaLast.value)) = FirstOccurrences(schemaLast.hdr)
        /\ \A p \in {DataColumns(schemaLast.value)[i] :
                        i \in 1..Len(DataColumns(schemaLast.value))} :
              p.val = HintedType(p.key)

\* header [id, signup_date, amount, name] with hints {signup_date: date,
\* amount: double} gives [STRING, DATE, DOUBLE, STRING]
C5_Witness ==
    /\ SchemaReturned
    /\ ~config.add_metadata_columns
    /\ config.custom_mappings = HintsExample
    /\ schemaLast.hdr = <<"id", "signup_date", "amount", "name">>
    /\ schemaLast.value =
           << [key |-> "id", val |-> StringType],
              [key |-> "signup_date", val |-> DateType],
              [key |-> "amount", val |-> DoubleType],
              [key |-> "name", val |-> StringType] >>

\* the raw cells of the emitted row e that fall in columns of the JSON type typ
\* (the columns of a header without repeated names)
CellsOfType(e, typ) ==
    {i \in 1..Min(Len(schemaLast.hdr), Len(e.raw)) :
        /\ FirstOccurrences(schemaLast.hdr) = schemaLast.hdr
        /\ DictGet(schemaLast.value, schemaLast.hdr[i]) = typ}

\* C6: in every emitted record, a cell of an INTEGER, DOUBLE or DATE column
\* that parses in that type is emitted converted: an integer, a float, the
\* YYYY-MM-DD string.
C6_TypedColumnsConverted ==
    SchemaReturned =>
        \A e \in Emitted :
            /\ \A i \in CellsOfType(e, IntegerType) :
                  ParseInt(e.raw[i]).ok =>
                      DictGet(e.record, schemaLast.hdr[i]) = PyInt(ParseInt(e.raw[i]).n)
            /\ \A i \in CellsOfType(e, DateType) :
                  Strptime(e.raw[i]).ok =>
                      DictGet(e.record, schemaLast.hdr[i])
                          = Str(Strftime(Strptime(e.raw[i])))
            /\ \A i \in CellsOfType(e, DoubleType) :
                  ParseFloat(e.raw[i]).ok =>
                      DictGet(e.record, schemaLast.hdr[i]).k = "float"

\* what the claim says a raw cell of a column of the given type is emitted as
Coerced(type, raw) ==
    IF type = "integer"
    THEN (IF ParseInt(raw).ok THEN PyInt(ParseInt(raw).n) ELSE Str(raw))
    ELSE IF type = "double"
    THEN (IF ParseFloat(raw).ok THEN PyFloat(ParseFloat(raw).n, ParseFloat(raw).e)
          ELSE Str(raw))
    ELSE IF type = "date"
    THEN (IF Strptime(raw).ok THEN Str(Strftime(Strptime(raw))) ELSE Str(raw))
    ELSE Str(raw)

\* C7: coercion never raises: every row converted so far was emitted, with the
\* converted value where the cell parses in the column's type and the raw
\* string unchanged where it does not, and no exception stopped the rows.
C7_CoercionNeverFails ==
    /\ cast.failure = ""
    /\ \A i \in 1..Len(cast.out) :
          cast.out[i] = <<[key |-> "x", val |-> Coerced(cast.type, cast.rows[i])]>>

\* "abc" against INTEGER stays "abc", and the next row, "42", becomes 42
C7_Witness ==
    /\ cast.type = "integer"
    /\ cast.rows = <<CellAbc, Cell42>>
    /\ cast.out = << <<[key |-> "x", val |-> Str(CellAbc)]>>,
                     <<[key |-> "x", val |-> PyInt(42)]>> >>

\* C8: when the first resolved file has no header columns (an empty header
\* row, or no rows at all), an access of the schema raises nothing and returns
\* a schema without data columns.
C8_EmptyHeaderIsNoError ==
    (/\ schemaLast.done
     /\ file_paths # <<>>
     /\ fs[file_paths[1]].exists
     /\ (fs[file_paths[1]].rows = <<>> \/ fs[file_paths[1]].rows[1] = <<>>))
    => /\ schemaLast.err = ""
       /\ DataColumns(schemaLast.value) = <<>>

\* the data rows of the files from number i on, as <<path, position>>
RECURSIVE DataRowsFrom(_)
DataRowsFrom(i) ==
    IF i > Len(file_paths) THEN <<>>
    ELSE [k \in 1..(Len(fs[file_paths[i]].rows) - 1) |-> <<file_paths[i], k + 1>>]
             \o DataRowsFrom(i + 1)

\* C9: when get_records ends, otherwise than by a filesystem error, it has
\* emitted one record for every data row of every resolved file, in file order
\* and row order, and nothing else.
C9_EveryDataRowEmitted ==
    (pc = "done" \/ (pc = "error" /\ err = "UnboundLocalError")) =>
        [i \in 1..Len(emitted) |-> <<emitted[i].path, emitted[i].pos>>] = DataRowsFrom(1)

\* C10: at no time do the row generators being iterated hold more than one
\* open file handle.
C10_OneHandleAtATime == peakOpen <= 1


=============================================================================
